---- MODULE Spec2Model ----
(***************************************************************************)
(* Wire-format core of ferrumc: the primitive decoders of                  *)
(* ferrumc_utils/src/type_impls.rs and the chunk packet builder of         *)
(* src/net/packets/outgoing/chunk_and_light_data.rs.                       *)
(*                                                                         *)
(* Representation of machine values.  TLC integers are 32 bits wide, so:   *)
(*   - a byte is a number 0..255;                                          *)
(*   - bool is a BOOLEAN; u8, i8, u16, i16 and i32 are numbers;            *)
(*   - u32, i64, f32, f64 and the u64 words of the bit packer are bit      *)
(*     patterns: the set of the positions (0 = least significant) of the   *)
(*     bits that are 1.  Shifts, masks and ORs act on these sets.          *)
(***************************************************************************)
EXTENDS Integers, Sequences, FiniteSets, TLC

VARIABLES
    stream,        \* the bytes of the readable byte source
    pos,           \* its cursor: the number of bytes consumed so far
    decoded,       \* outcome of the last decode call on the stream
    chunk_data,    \* argument of create_block_states (layers of voxel indices)
    block_states,  \* a BlockStates value (result of create_block_states)
    biomes,        \* a Biomes value
    payload,       \* outcome of the last serialize_block_states / serialize_biomes
    request,       \* the (chunk_x, chunk_z) a packet is asked for
    chunk,         \* the in-memory Chunk a packet is built from
    result         \* outcome of ChunkDataAndUpdateLight::new

vars == <<stream, pos, decoded, chunk_data, block_states, biomes, payload, request, chunk, result>>

None == [tag |-> "None"]
Some(v) == [tag |-> "Some", val |-> v]

(***************************************************************************)
(* Bounds of the model.                                                    *)
(***************************************************************************)
MaxStrLen == 3       \* longest string payload put on a stream
MaxTail == 1         \* bytes that may follow an encoded value on a stream

(***************************************************************************)
(* Bytes and bit patterns.                                                 *)
(***************************************************************************)
Pow2(n) == 2 ^ n

BitsOfByte(b) == {i \in 0..7 : (b \div Pow2(i)) % 2 = 1}

RECURSIVE SumPow2(_)
SumPow2(S) == IF S = {} THEN 0
              ELSE LET i == CHOOSE k \in S : TRUE IN Pow2(i) + SumPow2(S \ {i})

\* the byte made of bits lo..lo+7 of a bit pattern
ByteOfBits(bits, lo) == SumPow2({i \in 0..7 : (lo + i) \in bits})

\* ss[lo] \o ... \o ss[hi]
RECURSIVE ConcatRange(_, _, _)
ConcatRange(ss, lo, hi) ==
    IF lo > hi THEN <<>>
    ELSE IF lo = hi THEN ss[lo]
    ELSE LET mid == (lo + hi) \div 2
         IN  ConcatRange(ss, lo, mid) \o ConcatRange(ss, mid + 1, hi)

Concat(ss) == ConcatRange(ss, 1, Len(ss))

(***************************************************************************)
(* The byte source: read_exact, as the decoders call it.  A short read     *)
(* fails; the bytes that were there have been consumed by then.            *)
(***************************************************************************)
\* variant: a short read hands back what was there, zero-filled, as a success
read_exact_short(s, p, n) ==
    IF Len(s) - p >= 1
    THEN [ok |-> TRUE, buf |-> SubSeq(s, p + 1, Len(s)) \o [i \in 1..(n - (Len(s) - p)) |-> 0],
          pos |-> Len(s)]
    ELSE [ok |-> FALSE, pos |-> Len(s)]

read_exact(s, p, n) ==
    IF Len(s) - p >= n
    THEN [ok |-> TRUE, buf |-> SubSeq(s, p + 1, p + n), pos |-> p + n]
    ELSE [ok |-> FALSE, pos |-> Len(s)]

Generic(msg) == [kind |-> "Generic", msg |-> msg]

Ok(t, v) == [type |-> t, ok |-> TRUE, value |-> v]
Err(t, e) == [type |-> t, ok |-> FALSE, error |-> e]

NoDecode == Err("none", [kind |-> "none"])

(***************************************************************************)
(* from_be_bytes of the standard library, per representation.              *)
(***************************************************************************)
RECURSIVE UnsignedBE(_)
UnsignedBE(buf) ==
    IF buf = <<>> THEN 0
    ELSE Head(buf) * Pow2(8 * (Len(buf) - 1)) + UnsignedBE(Tail(buf))

AsSigned8(b) == IF b >= 128 THEN b - 256 ELSE b

SignedBE(buf) == AsSigned8(Head(buf)) * Pow2(8 * (Len(buf) - 1)) + UnsignedBE(Tail(buf))

\* variant: the bytes taken least significant first
PatternLE(buf) ==
    {k \in 0..(8 * Len(buf) - 1) : (k % 8) \in BitsOfByte(buf[(k \div 8) + 1])}

PatternBE(buf) ==
    {k \in 0..(8 * Len(buf) - 1) : (k % 8) \in BitsOfByte(buf[Len(buf) - (k \div 8)])}

(***************************************************************************)
(* impl Decode for bool, u8, i8, u16, i16, u32, i32, i64, f32, f64.        *)
(* Each takes the stream and its cursor and gives the outcome and the new  *)
(* cursor.                                                                 *)
(***************************************************************************)
decode_bool(s, p) ==
    LET r == read_exact(s, p, 1)
    IN  IF r.ok THEN [res |-> Ok("bool", r.buf[1] # 0), pos |-> r.pos]
        ELSE [res |-> Err("bool", Generic("Failed to read bool")), pos |-> r.pos]

decode_u8(s, p) ==
    LET r == read_exact(s, p, 1)
    IN  IF r.ok THEN [res |-> Ok("u8", r.buf[1]), pos |-> r.pos]
        ELSE [res |-> Err("u8", Generic("Failed to read u8")), pos |-> r.pos]

decode_i8(s, p) ==
    LET r == read_exact(s, p, 1)
    IN  IF r.ok THEN [res |-> Ok("i8", AsSigned8(r.buf[1])), pos |-> r.pos]
        ELSE [res |-> Err("i8", Generic("Failed to read i8")), pos |-> r.pos]

decode_u16(s, p) ==
    LET r == read_exact(s, p, 2)
    IN  IF r.ok THEN [res |-> Ok("u16", UnsignedBE(r.buf)), pos |-> r.pos]
        ELSE [res |-> Err("u16", Generic("Failed to read u16")), pos |-> r.pos]

decode_i16(s, p) ==
    LET r == read_exact(s, p, 2)
    IN  IF r.ok THEN [res |-> Ok("i16", SignedBE(r.buf)), pos |-> r.pos]
        ELSE [res |-> Err("i16", Generic("Failed to read i16")), pos |-> r.pos]

decode_u32(s, p) ==
    LET r == read_exact(s, p, 4)
    IN  IF r.ok THEN [res |-> Ok("u32", PatternBE(r.buf)), pos |-> r.pos]
        ELSE [res |-> Err("u32", Generic("Failed to read u32")), pos |-> r.pos]

decode_i32(s, p) ==
    LET r == read_exact(s, p, 4)
    IN  IF r.ok THEN [res |-> Ok("i32", SignedBE(r.buf)), pos |-> r.pos]
        ELSE [res |-> Err("i32", Generic("Failed to read i32")), pos |-> r.pos]

decode_i64(s, p) ==
    LET r == read_exact(s, p, 8)
    IN  IF r.ok THEN [res |-> Ok("i64", PatternBE(r.buf)), pos |-> r.pos]
        ELSE [res |-> Err("i64", Generic("Failed to read i64")), pos |-> r.pos]

decode_f32(s, p) ==
    LET r == read_exact(s, p, 4)
    IN  IF r.ok THEN [res |-> Ok("f32", PatternBE(r.buf)), pos |-> r.pos]
        ELSE [res |-> Err("f32", Generic("Failed to read f32")), pos |-> r.pos]

decode_f64(s, p) ==
    LET r == read_exact(s, p, 8)
    IN  IF r.ok THEN [res |-> Ok("f64", PatternBE(r.buf)), pos |-> r.pos]
        ELSE [res |-> Err("f64", Generic("Failed to read f64")), pos |-> r.pos]

ScalarTypes == {"bool", "u8", "i8", "u16", "i16", "u32", "i32", "i64", "f32", "f64"}

decode(t, s, p) ==
    CASE t = "bool" -> decode_bool(s, p)
      [] t = "u8"   -> decode_u8(s, p)
      [] t = "i8"   -> decode_i8(s, p)
      [] t = "u16"  -> decode_u16(s, p)
      [] t = "i16"  -> decode_i16(s, p)
      [] t = "u32"  -> decode_u32(s, p)
      [] t = "i32"  -> decode_i32(s, p)
      [] t = "i64"  -> decode_i64(s, p)
      [] t = "f32"  -> decode_f32(s, p)
      [] t = "f64"  -> decode_f64(s, p)

(***************************************************************************)
(* read_varint: 7 payload bits per byte, least significant group first,    *)
(* one byte read at a time, at most 5 groups for the 32-bit VarInt.        *)
(***************************************************************************)
VarIntMaxGroups == 5

\* the i32 that results from OR-ing group g (0..127) in at bit 28
TopGroup(acc, g) ==
    LET low == acc + (g % 8) * Pow2(28)
    IN  IF (g \div 8) % 2 = 1 THEN (low - Pow2(30)) - Pow2(30) ELSE low

RECURSIVE ReadVarIntGroups(_, _, _, _)
ReadVarIntGroups(s, p, n, acc) ==
    IF n >= VarIntMaxGroups THEN [ok |-> FALSE, error |-> [kind |-> "InvalidVarInt"], pos |-> p]
    ELSE IF p >= Len(s)
    THEN [ok |-> FALSE, error |-> Generic("Failed to read VarInt"), pos |-> p]
    ELSE LET b == s[p + 1]
             v == IF n = 4 THEN TopGroup(acc, b % 128) ELSE acc + (b % 128) * Pow2(7 * n)
         IN  IF b < 128 THEN [ok |-> TRUE, value |-> v, pos |-> p + 1]
             ELSE ReadVarIntGroups(s, p + 1, n + 1, v)

read_varint(s, p) == ReadVarIntGroups(s, p, 0, 0)

(***************************************************************************)
(* read_varlong: the same with up to 10 groups; the value is a 64-bit      *)
(* pattern, and bits shifted past bit 63 are lost.                         *)
(***************************************************************************)
VarLongMaxGroups == 10

RECURSIVE ReadVarLongGroups(_, _, _, _)
ReadVarLongGroups(s, p, n, acc) ==
    IF n >= VarLongMaxGroups THEN [ok |-> FALSE, error |-> [kind |-> "InvalidVarLong"], pos |-> p]
    ELSE IF p >= Len(s)
    THEN [ok |-> FALSE, error |-> Generic("Failed to read VarLong"), pos |-> p]
    ELSE LET b == s[p + 1]
             v == acc \cup ({i + 7 * n : i \in BitsOfByte(b % 128)} \cap (0..63))
         IN  IF b < 128 THEN [ok |-> TRUE, value |-> v, pos |-> p + 1]
             ELSE ReadVarLongGroups(s, p + 1, n + 1, v)

read_varlong(s, p) == ReadVarLongGroups(s, p, 0, {})

(***************************************************************************)
(* impl Decode for VarInt and for Varlong.                                 *)
(***************************************************************************)
decode_VarInt(s, p) ==
    LET r == read_varint(s, p)
    IN  IF r.ok THEN [res |-> Ok("VarInt", r.value), pos |-> r.pos]
        ELSE [res |-> Err("VarInt", r.error), pos |-> r.pos]

decode_Varlong(s, p) ==
    LET r == read_varlong(s, p)
    IN  IF r.ok THEN [res |-> Ok("Varlong", r.value), pos |-> r.pos]
        ELSE [res |-> Err("Varlong", r.error), pos |-> r.pos]

(***************************************************************************)
(* String::from_utf8: the well-formed UTF-8 byte sequences.                *)
(***************************************************************************)
IsCont(b) == b >= 128 /\ b <= 191

RECURSIVE IsUtf8(_)
IsUtf8(bs) ==
    IF bs = <<>> THEN TRUE
    ELSE LET b == bs[1]
             n == Len(bs)
             rest(k) == SubSeq(bs, k + 1, n)
         IN  IF b < 128 THEN IsUtf8(rest(1))
             ELSE IF b >= 194 /\ b <= 223
             THEN n >= 2 /\ IsCont(bs[2]) /\ IsUtf8(rest(2))
             ELSE IF b >= 224 /\ b <= 239
             THEN /\ n >= 3
                  /\ IsCont(bs[2]) /\ IsCont(bs[3])
                  /\ (b = 224 => bs[2] >= 160)
                  /\ (b = 237 => bs[2] <= 159)
                  /\ IsUtf8(rest(3))
             ELSE IF b >= 240 /\ b <= 244
             THEN /\ n >= 4
                  /\ IsCont(bs[2]) /\ IsCont(bs[3]) /\ IsCont(bs[4])
                  /\ (b = 240 => bs[2] >= 144)
                  /\ (b = 244 => bs[2] <= 143)
                  /\ IsUtf8(rest(4))
             ELSE FALSE

\* From<std::io::Error> for Error and From<FromUtf8Error> for Error, applied by `?`
FromIoError == Generic("failed to fill whole buffer")
FromUtf8Error == [kind |-> "InvalidUtf8"]

(***************************************************************************)
(* impl Decode for String.  A String is held as its UTF-8 bytes.           *)
(***************************************************************************)
\* variant: the cursor is put back before the payload when it is not UTF-8
decode_String_rewind(s, p) ==
    LET len == read_varint(s, p)
    IN  IF ~len.ok THEN [res |-> Err("String", len.error), pos |-> len.pos]
        ELSE IF len.value < 0 THEN [res |-> Err("String", [kind |-> "Panic"]), pos |-> len.pos]
        ELSE LET r == read_exact(s, len.pos, len.value)
             IN  IF ~r.ok THEN [res |-> Err("String", FromIoError), pos |-> r.pos]
                 ELSE IF ~IsUtf8(r.buf) THEN [res |-> Err("String", FromUtf8Error), pos |-> len.pos]
                 ELSE [res |-> Ok("String", r.buf), pos |-> r.pos]

decode_String(s, p) ==
    LET len == read_varint(s, p)
    IN  IF ~len.ok THEN [res |-> Err("String", len.error), pos |-> len.pos]
        ELSE IF len.value < 0 THEN [res |-> Err("String", [kind |-> "Panic"]), pos |-> len.pos]
        ELSE LET r == read_exact(s, len.pos, len.value)
             IN  IF ~r.ok THEN [res |-> Err("String", FromIoError), pos |-> r.pos]
                 ELSE IF ~IsUtf8(r.buf) THEN [res |-> Err("String", FromUtf8Error), pos |-> r.pos]
                 ELSE [res |-> Ok("String", r.buf), pos |-> r.pos]

(***************************************************************************)
(* Encode of the scalar types and of String (the writer side): big-endian  *)
(* bytes; a VarInt byte length, then the bytes of the string.              *)
(***************************************************************************)
Width(t) == CASE t \in {"bool", "u8", "i8"} -> 1
              [] t \in {"u16", "i16"} -> 2
              [] t \in {"u32", "i32", "f32"} -> 4
              [] t \in {"i64", "f64"} -> 8

NumberBE(x, n) == [j \in 1..n |-> (x \div Pow2(8 * (n - j))) % 256]

BitsBE(bits, n) == [j \in 1..n |-> ByteOfBits(bits, 8 * (n - j))]

to_be_bytes(t, x) ==
    CASE t = "bool" -> <<IF x THEN 1 ELSE 0>>
      [] t \in {"u8", "i8", "u16", "i16", "i32"} -> NumberBE(x, Width(t))
      [] t \in {"u32", "i64", "f32", "f64"} -> BitsBE(x, Width(t))

RECURSIVE VarIntBytes(_)
VarIntBytes(v) ==
    IF v < 128 THEN <<v>> ELSE <<(v % 128) + 128>> \o VarIntBytes(v \div 128)

(***************************************************************************)
(* The values and the streams the decoders are run on.                     *)
(***************************************************************************)
AllBits(w) == 0..(w - 1)

Samples(t) ==
    CASE t = "bool" -> BOOLEAN
      [] t = "u8"   -> {0, 1, 127, 128, 255}
      [] t = "i8"   -> {0, -1, 1, 127, -128}
      [] t = "u16"  -> {0, 1, 255, 256, 4660, 32767, 32768, 65535}
      [] t = "i16"  -> {0, -1, 1, 255, 256, 4660, -4660, 32767, -32768}
      [] t = "i32"  -> {0, -1, 1, 16909060, -16909060, 2147483647, -2147483647 - 1}
      [] t = "u32"  -> {{}, {0}, AllBits(32), {31}, AllBits(31), {2, 8, 17, 24}}
      [] t = "f32"  -> {{}, {31}, AllBits(32), 23..29, 23..30, {0}}
      [] t = "i64"  -> {{}, {0}, AllBits(64), {63}, AllBits(63), {3, 8, 17, 26, 35, 44, 53, 56}}
      [] t = "f64"  -> {{}, {63}, AllBits(64), 52..61, 52..62, {0}}

TailBytes == {0, 65}
StrBytes == {65, 195, 169}

RECURSIVE SeqsUpTo(_, _)
SeqsUpTo(S, n) ==
    IF n = 0 THEN {<<>>}
    ELSE LET shorter == SeqsUpTo(S, n - 1)
         IN  shorter \cup {Append(q, x) : q \in {r \in shorter : Len(r) = n - 1}, x \in S}

Prefixes(q) == {SubSeq(q, 1, k) : k \in 0..Len(q)}

ScalarStreams ==
    UNION {UNION {Prefixes(to_be_bytes(t, x)) \cup
                  {to_be_bytes(t, x) \o tl : tl \in SeqsUpTo(TailBytes, MaxTail)}
                  : x \in Samples(t)} : t \in ScalarTypes}

\* a declared length, then a payload that may be shorter or longer than declared
StringStreams ==
    {VarIntBytes(n) \o body : n \in (0..MaxStrLen) \cup {200},
                              body \in SeqsUpTo(StrBytes, MaxStrLen)}

\* VarInts and VarLongs of one to ten groups, one of them cut short
VarStreams ==
    {VarIntBytes(v) \o tl : v \in {0, 5, 127, 128, 300, 2097151, 2097152},
                            tl \in SeqsUpTo(TailBytes, MaxTail)}
    \cup {<<172, 2, 7>>, <<9, 128>>,
          <<255, 255, 255, 255, 15>>,
          <<255, 255, 255, 255, 255, 255, 255, 255, 255, 1>>,
          <<128, 128, 128, 128, 128, 128, 128, 128, 128, 128, 1>>}

DecodeStreams == ScalarStreams \cup StringStreams \cup VarStreams

(***************************************************************************)
(* The decoders on one stream: calls are sequential, each starts where the *)
(* last one left the cursor.                                               *)
(***************************************************************************)
NoChunkWork ==
    /\ chunk_data = <<>>
    /\ block_states = None
    /\ biomes = None
    /\ payload = None
    /\ request = None
    /\ chunk = None
    /\ result = None

InitDecode ==
    /\ stream \in DecodeStreams
    /\ pos = 0
    /\ decoded = NoDecode
    /\ NoChunkWork

DecodeScalarOf(t) ==
    LET r == decode(t, stream, pos)
    IN  /\ decoded' = r.res
        /\ pos' = r.pos
        /\ UNCHANGED <<stream, chunk_data, block_states, biomes, payload, request, chunk, result>>

DecodeScalar == \E t \in ScalarTypes : DecodeScalarOf(t)

DecodeString ==
    LET r == decode_String(stream, pos)
    IN  /\ decoded' = r.res
        /\ pos' = r.pos
        /\ UNCHANGED <<stream, chunk_data, block_states, biomes, payload, request, chunk, result>>

DecodeVarInt ==
    LET r == decode_VarInt(stream, pos)
    IN  /\ decoded' = r.res
        /\ pos' = r.pos
        /\ UNCHANGED <<stream, chunk_data, block_states, biomes, payload, request, chunk, result>>

DecodeVarlong ==
    LET r == decode_Varlong(stream, pos)
    IN  /\ decoded' = r.res
        /\ pos' = r.pos
        /\ UNCHANGED <<stream, chunk_data, block_states, biomes, payload, request, chunk, result>>

NextDecode == DecodeScalar \/ DecodeString \/ DecodeVarInt \/ DecodeVarlong

SpecDecode == InitDecode /\ [][NextDecode]_vars

\* the stream holds the bytes bs at its cursor
HoldsAt(s, p, bs) == Len(s) - p >= Len(bs) /\ SubSeq(s, p + 1, p + Len(bs)) = bs

\* C5: decoding a stream that holds the big-endian encoding of x gives x and moves
\* the cursor by exactly the width of the type.
C5_RoundTrip ==
    [][\A t \in ScalarTypes :
         DecodeScalarOf(t) =>
            \A x \in Samples(t) :
               HoldsAt(stream, pos, to_be_bytes(t, x))
                  => (decoded' = Ok(t, x) /\ pos' = pos + Width(t))]_vars

C5_Witness ==
    /\ stream = to_be_bytes("i64", {63}) \o <<65>>
    /\ decoded = Ok("i64", {63})
    /\ pos = 8

\* C6: a String whose declared payload is all there but is not UTF-8 fails with the
\* invalid-UTF-8 error, the cursor past the prefix and all the declared bytes.
C6_InvalidUtf8 ==
    [][\A n \in 0..(MaxStrLen + 1) :
         LET pre == VarIntBytes(n)
             from == pos + Len(pre)
         IN  (/\ DecodeString
              /\ HoldsAt(stream, pos, pre)
              /\ Len(stream) - from >= n
              /\ ~IsUtf8(SubSeq(stream, from + 1, from + n)))
             => (/\ ~decoded'.ok
                 /\ decoded'.error = [kind |-> "InvalidUtf8"]
                 /\ pos' = from + n)]_vars

C6_Witness ==
    /\ stream = <<2, 195, 65, 65>>
    /\ decoded = Err("String", [kind |-> "InvalidUtf8"])
    /\ pos = 3

\* C7: a fixed-size read that finds fewer bytes than it needs ends the decode with
\* an error of the generic category with a message, and with no value.
C7_ShortRead ==
    [][/\ \A t \in ScalarTypes :
            (DecodeScalarOf(t) /\ Len(stream) - pos < Width(t))
               => (/\ decoded'.type = t
                   /\ ~decoded'.ok
                   /\ DOMAIN decoded' = {"type", "ok", "error"}
                   /\ decoded'.error.kind = "Generic"
                   /\ decoded'.error.msg # "")
       /\ \A n \in (1..(MaxStrLen + 1)) \cup {200} :
            LET pre == VarIntBytes(n)
            IN  (/\ DecodeString
                 /\ HoldsAt(stream, pos, pre)
                 /\ Len(stream) - (pos + Len(pre)) < n)
                => (/\ decoded'.type = "String"
                    /\ ~decoded'.ok
                    /\ DOMAIN decoded' = {"type", "ok", "error"}
                    /\ decoded'.error.kind = "Generic"
                    /\ decoded'.error.msg # "")]_vars

C7_Witness ==
    /\ stream = <<1, 2, 3>>
    /\ decoded = Err("i32", Generic("Failed to read i32"))

C7_WitnessString ==
    /\ stream = <<3, 65, 65>>
    /\ decoded.type = "String" /\ ~decoded.ok /\ decoded.error.kind = "Generic"

(***************************************************************************)
(* create_block_states: the bit packer.  A u64 word is the set of its      *)
(* 1-bit positions; u64 -> i64 by transmute keeps the bit pattern.         *)
(***************************************************************************)
bits_per_block == 15

WordBits == 64

\* (1 << bits_per_block) - 1
mask == 0..(bits_per_block - 1)

\* x << n on a u64: bits pushed past bit 63 are lost
Shl(x, n) == {b + n : b \in x} \cap (0..(WordBits - 1))

PackStep(st, block) ==
    LET long == st.current_long \cup
                Shl(BitsOfByte(block) \cap mask, bits_per_block * st.blocks_in_current_long)
        n == st.blocks_in_current_long + 1
    IN  IF n = WordBits \div bits_per_block
        THEN [data |-> Append(st.data, long), current_long |-> {}, blocks_in_current_long |-> 0]
        ELSE [data |-> st.data, current_long |-> long, blocks_in_current_long |-> n]

\* the loop over layer[lo..hi], left to right
RECURSIVE PackRange(_, _, _, _)
PackRange(st, layer, lo, hi) ==
    IF lo > hi THEN st
    ELSE IF lo = hi THEN PackStep(st, layer[lo])
    ELSE LET mid == (lo + hi) \div 2
             left == PackRange(st, layer, lo, mid)
         IN  \* the test is always true: it has the left half evaluated first
             IF left.blocks_in_current_long >= 0
             THEN PackRange(left, layer, mid + 1, hi)
             ELSE left

\* one iteration of the loop over the layers
PackLayer(data, layer) ==
    LET st == PackRange([data |-> data, current_long |-> {}, blocks_in_current_long |-> 0],
                        layer, 1, Len(layer))
    IN  IF st.blocks_in_current_long > 0 THEN Append(st.data, st.current_long) ELSE st.data

RECURSIVE PackLayers(_, _)
PackLayers(data, layers) ==
    IF layers = <<>> THEN data
    ELSE PackLayers(PackLayer(data, Head(layers)), Tail(layers))

create_block_states(layers, palette) ==
    [data |-> Some(PackLayers(<<>>, layers)), palette |-> Some(palette)]

(***************************************************************************)
(* The registries.                                                         *)
(***************************************************************************)
\* variant: an unknown name resolves to 1
get_block_state_id_unknown_as_stone(block_name) ==
    CASE block_name = "minecraft:air" -> 0
      [] block_name = "minecraft:stone" -> 1
      [] block_name = "minecraft:grass_block" -> 9
      [] block_name = "minecraft:oak_log" -> 131
      [] OTHER -> 1

get_block_state_id(block_name) ==
    CASE block_name = "minecraft:air" -> 0
      [] block_name = "minecraft:stone" -> 1
      [] block_name = "minecraft:grass_block" -> 9
      [] block_name = "minecraft:oak_log" -> 131
      [] OTHER -> 0

get_biome_id(biome) ==
    CASE biome = "minecraft:plains" -> 1
      [] OTHER -> 0

(***************************************************************************)
(* serialize_block_states and serialize_biomes.  A call ends with Ok(bytes),*)
(* with Err(error) or in a panic.                                          *)
(***************************************************************************)
ROk(v) == [tag |-> "Ok", val |-> v]
RErr(e) == [tag |-> "Err", error |-> e]
Panic == [tag |-> "Panic"]

non_air_blocks == 4096

BiomeWords == 64

EncodeLongs(longs) == Concat([i \in 1..Len(longs) |-> BitsBE(longs[i], 8)])

serialize_block_states(bs) ==
    IF bs.palette = None THEN RErr("MissingBlockStates")
    ELSE IF bs.data = None THEN Panic
    ELSE LET palettes == bs.palette.val
             block_data == bs.data.val
         IN  ROk(NumberBE(non_air_blocks, 2)
                 \o <<bits_per_block>>
                 \o VarIntBytes(Len(palettes))
                 \o Concat([i \in 1..Len(palettes) |->
                               VarIntBytes(get_block_state_id(palettes[i].name))])
                 \o VarIntBytes(Len(block_data))
                 \o EncodeLongs(block_data))

\* floor(log2(n)) of a positive n
RECURSIVE FloorLog2From(_, _)
FloorLog2From(n, e) == IF n \div Pow2(e) < 2 THEN e ELSE FloorLog2From(n, e + 1)

\* n as f32, for n = 2^e + k given as k: an f32 holds 24 significant bits, so from
\* 2^24 on k is rounded to the nearest multiple of 2^(e - 23), ties to even
F32RoundOffset(e, k) ==
    IF e < 24 THEN k
    ELSE LET q == Pow2(e - 23)
             r == k % q
             down == k - r
         IN  IF 2 * r < q THEN down
             ELSE IF 2 * r > q THEN down + q
             ELSE IF (down \div q) % 2 = 0 THEN down ELSE down + q

\* (n as f32).log2().ceil() of a positive n.  The f32 logarithm of 2^e + k is
\* rounded to the nearest f32; between 16 and 32 these are 2^-19 apart, so it
\* is e itself when log2(1 + k / 2^e) < 2^-20, that is k < 2^(e - 20) * ln 2.
F32Log2Ceil(n) ==
    LET e == FloorLog2From(n, 0)
        kf == F32RoundOffset(e, n - Pow2(e))
    IN  IF kf = 0 THEN e
        ELSE IF e >= 21 /\ kf < 1024 /\ kf * 10000 < Pow2(e - 20) * 6931 THEN e
        ELSE e + 1

\* (palette_len as f32).log2().ceil().max(1.0) as u8; log2(0) is -inf
bits_per_biome(palette_len) ==
    IF palette_len = 0 THEN 1
    ELSE LET l == F32Log2Ceil(palette_len) IN IF l > 1 THEN l ELSE 1

serialize_biomes(bm) ==
    LET biome_data == [i \in 1..BiomeWords |-> {}]
    IN  ROk(<<bits_per_biome(Len(bm.palette))>>
            \o VarIntBytes(Len(bm.palette))
            \o Concat([i \in 1..Len(bm.palette) |-> VarIntBytes(get_biome_id(bm.palette[i]))])
            \o VarIntBytes(Len(biome_data))
            \o EncodeLongs(biome_data))

(***************************************************************************)
(* create_basic_chunk: the stub column.                                    *)
(***************************************************************************)
SectionVoxels == 16 * 16 * 16

PaletteEntry(name) == [name |-> name, properties |-> None]

MinSectionY == -4
MaxSectionY == 20

\* create_block_states is called in every iteration with the same arguments;
\* its result is named once here
create_basic_chunk(chunk_x, chunk_z) ==
    LET palette == <<PaletteEntry("minecraft:air"), PaletteEntry("minecraft:stone")>>
        layers == <<[i \in 1..SectionVoxels |-> 1]>>
        created == create_block_states(layers, palette)
        section(y) == [block_states |-> Some(created),
                       biomes |-> Some([palette |-> <<"minecraft:plains">>]),
                       y |-> y]
    IN  [x_pos |-> chunk_x,
         z_pos |-> chunk_z,
         y_pos |-> -4,
         heightmaps |-> Some([motion_blocking |-> Some([i \in 1..37 |-> 0]),
                              world_surface |-> Some([i \in 1..37 |-> 0])]),
         sections |-> Some([i \in 1..(MaxSectionY - MinSectionY + 1) |->
                               section(MinSectionY + i - 1)])]

(***************************************************************************)
(* ChunkDataAndUpdateLight::new.                                           *)
(***************************************************************************)
SECTIONS == 24

LightArrayLen == 2048

\* BitSet: the set of the positions of its 1 bits
BitSet_from_iter(items) == {i - 1 : i \in {j \in 1..Len(items) : items[j] # 0}}
BitSet_empty == {}

\* variant: the arrays filled with 0x0F, as the sections' own light vectors are
DimLightArray == [data |-> [i \in 1..LightArrayLen |-> 15]]

FullLightArray == [data |-> [i \in 1..LightArrayLen |-> 255]]

\* one iteration of the loop over the sections: the payload so far, or the way
\* the call ended.  ser_bs and ser_bm hold serialize_block_states and
\* serialize_biomes of the values the sections carry (each is a function of its
\* argument alone, so it is evaluated once per distinct value).
SerializeSection(acc, section, ser_bs, ser_bm) ==
    IF acc.tag # "Ok" THEN acc
    ELSE IF section.block_states = None THEN RErr("MissingBlockStates")
    ELSE LET block_states_data == ser_bs[section.block_states.val]
         IN  IF block_states_data.tag # "Ok" THEN block_states_data
             ELSE IF section.biomes = None THEN RErr("MissingBlockStates")
             ELSE LET biomes_data == ser_bm[section.biomes.val]
                  IN  IF biomes_data.tag # "Ok" THEN biomes_data
                      ELSE ROk(acc.val \o block_states_data.val \o biomes_data.val)

RECURSIVE SerializeFrom(_, _, _, _, _)
SerializeFrom(acc, sections, i, ser_bs, ser_bm) ==
    IF i > Len(sections) THEN acc
    ELSE SerializeFrom(SerializeSection(acc, sections[i], ser_bs, ser_bm),
                       sections, i + 1, ser_bs, ser_bm)

SerializeSections(sections) ==
    LET idx == 1..Len(sections)
        ser_bs == [b \in {sections[i].block_states.val :
                             i \in {j \in idx : sections[j].block_states # None}}
                     |-> serialize_block_states(b)]
        ser_bm == [b \in {sections[i].biomes.val :
                             i \in {j \in idx : sections[j].biomes # None}}
                     |-> serialize_biomes(b)]
    IN  SerializeFrom(ROk(<<>>), sections, 1, ser_bs, ser_bm)

\* the body of new from the section loop on, for the chunk it was given
NewFromChunk(c, chunk_x, chunk_z) ==
    IF c.sections = None THEN Panic
    ELSE LET data == SerializeSections(c.sections.val)
         IN  IF data.tag # "Ok" THEN data
             ELSE IF c.heightmaps = None THEN Panic
             ELSE ROk([packet_id |-> 36,
                       chunk_x |-> chunk_x,
                       chunk_z |-> chunk_z,
                       heightmaps |-> c.heightmaps.val,
                       data |-> data.val,
                       block_entities_count |-> 0,
                       block_entities |-> <<>>,
                       sky_light_mask |-> BitSet_from_iter([i \in 1..SECTIONS |-> 1]),
                       block_light_mask |-> BitSet_from_iter([i \in 1..SECTIONS |-> 1]),
                       empty_sky_light_mask |-> BitSet_empty,
                       empty_block_light_mask |-> BitSet_empty,
                       sky_light_array_count |-> SECTIONS,
                       sky_light_arrays |-> [i \in 1..SECTIONS |-> FullLightArray],
                       block_light_array_count |-> SECTIONS,
                       block_light_arrays |-> [i \in 1..SECTIONS |-> FullLightArray]])

(***************************************************************************)
(* Building packets for requested columns.                                 *)
(***************************************************************************)
MaxCoord == 8

Coords == (-MaxCoord)..MaxCoord

NearCoords == {-1, 0, 1}

NoDecodeWork == stream = <<>> /\ pos = 0 /\ decoded = NoDecode

NoPackWork == chunk_data = <<>> /\ block_states = None /\ biomes = None /\ payload = None

InitNew ==
    /\ NoDecodeWork
    /\ NoPackWork
    /\ request \in {Some([chunk_x |-> x, chunk_z |-> z]) : x \in Coords, z \in NearCoords}
    /\ chunk = None
    /\ result = None

New ==
    /\ result = None
    /\ chunk' = Some(create_basic_chunk(request.val.chunk_x, request.val.chunk_z))
    /\ result' = NewFromChunk(chunk'.val, request.val.chunk_x, request.val.chunk_z)
    /\ UNCHANGED <<stream, pos, decoded, chunk_data, block_states, biomes, payload, request>>

SpecNew == InitNew /\ [][New]_vars

(***************************************************************************)
(* The bit packer on bounded inputs.                                       *)
(***************************************************************************)
MaxLayerLen == 5

BlockValues == {1, 255}

Layers == SeqsUpTo(BlockValues, MaxLayerLen)

PackInputs == {<<a>> : a \in Layers} \cup {<<a, b>> : a \in Layers, b \in Layers}

StubPalette == <<PaletteEntry("minecraft:air"), PaletteEntry("minecraft:stone")>>

InitPack ==
    /\ NoDecodeWork
    /\ chunk_data \in PackInputs
    /\ block_states = None
    /\ biomes = None /\ payload = None
    /\ request = None /\ chunk = None /\ result = None

CreateBlockStates ==
    /\ block_states = None
    /\ block_states' = Some(create_block_states(chunk_data, StubPalette))
    /\ UNCHANGED <<stream, pos, decoded, chunk_data, biomes, payload, request, chunk, result>>

SpecPack == InitPack /\ [][CreateBlockStates]_vars

CeilDiv(a, b) == (a + b - 1) \div b

\* the bitsPerEntry-wide entry of a word at a bit offset, as a bit pattern
Extract(word, off, width) == {b \in 0..(width - 1) : (b + off) \in word}

\* C3: unpacking the words under the no-straddling policy gives back the input
\* sequence (all layers, in order).
C3_Original ==
    block_states # None =>
        LET words == block_states.val.data.val
            flat == Concat(chunk_data)
            k == WordBits \div bits_per_block
        IN  /\ Len(words) * k >= Len(flat)
            /\ \A i \in 0..(Len(flat) - 1) :
                 Extract(words[(i \div k) + 1], (i % k) * bits_per_block, bits_per_block)
                    = BitsOfByte(flat[i + 1])

\* C9: N indices over all layers give ceil(N / floor(64 / bitsPerEntry)) words,
\* whose unused high bits are zero.
C9_Original ==
    block_states # None =>
        LET words == block_states.val.data.val
            k == WordBits \div bits_per_block
        IN  /\ Len(words) = CeilDiv(Len(Concat(chunk_data)), k)
            /\ \A w \in 1..Len(words) : words[w] \subseteq 0..(k * bits_per_block - 1)

(***************************************************************************)
(* The section serializers on bounded palettes.  The block data is that of *)
(* a full section (16 * 16 * 16 indices), as the chunk builder makes it.   *)
(***************************************************************************)
MaxPalette == 3

BlockNames == {"minecraft:air", "minecraft:stone", "minecraft:oak_log", "minecraft:dirt"}
BiomeNames == {"minecraft:plains", "minecraft:desert"}

BlockStatesInputs ==
    LET full == create_block_states(<<[i \in 1..SectionVoxels |-> 1]>>, <<>>).data
    IN  {[data |-> full, palette |-> Some([i \in 1..Len(names) |-> PaletteEntry(names[i])])]
            : names \in SeqsUpTo(BlockNames, MaxPalette)}

BiomesInputs == {[palette |-> names] : names \in SeqsUpTo(BiomeNames, MaxPalette)}

InitPalette ==
    /\ NoDecodeWork
    /\ chunk_data = <<>>
    /\ \/ block_states \in {Some(b) : b \in BlockStatesInputs} /\ biomes = None
       \/ biomes \in {Some(b) : b \in BiomesInputs} /\ block_states = None
    /\ payload = None
    /\ request = None /\ chunk = None /\ result = None

SerializeBlockStates ==
    /\ payload = None
    /\ block_states # None
    /\ payload' = Some([kind |-> "block_states",
                        out |-> serialize_block_states(block_states.val)])
    /\ UNCHANGED <<stream, pos, decoded, chunk_data, block_states, biomes, request, chunk, result>>

SerializeBiomes ==
    /\ payload = None
    /\ biomes # None
    /\ payload' = Some([kind |-> "biomes", out |-> serialize_biomes(biomes.val)])
    /\ UNCHANGED <<stream, pos, decoded, chunk_data, block_states, biomes, request, chunk, result>>

NextPalette == SerializeBlockStates \/ SerializeBiomes

SpecPalette == InitPalette /\ [][NextPalette]_vars

\* a payload read back field by field: n VarInts from position p on
RECURSIVE ReadVarInts(_, _, _)
ReadVarInts(bytes, p, n) ==
    IF n = 0 THEN [ok |-> TRUE, vals |-> <<>>, pos |-> p]
    ELSE LET r == read_varint(bytes, p)
         IN  IF ~r.ok THEN [ok |-> FALSE, vals |-> <<>>, pos |-> r.pos]
             ELSE LET more == ReadVarInts(bytes, r.pos, n - 1)
                  IN  [ok |-> more.ok, vals |-> <<r.value>> \o more.vals, pos |-> more.pos]

\* where the palette starts in a payload: after the i16 count and the width byte
\* for block states, after the width byte for biomes
PaletteStart(kind) == IF kind = "block_states" THEN 3 ELSE 1

PaletteNames ==
    IF payload.val.kind = "block_states"
    THEN [i \in 1..Len(block_states.val.palette.val) |-> block_states.val.palette.val[i].name]
    ELSE biomes.val.palette

KnownBlockIds ==
    [n \in {"minecraft:air", "minecraft:stone", "minecraft:grass_block", "minecraft:oak_log"} |->
        CASE n = "minecraft:air" -> 0 [] n = "minecraft:stone" -> 1
          [] n = "minecraft:grass_block" -> 9 [] n = "minecraft:oak_log" -> 131]

KnownBiomeIds == [n \in {"minecraft:plains"} |-> 1]

RegistryId(kind, name) ==
    LET table == IF kind = "block_states" THEN KnownBlockIds ELSE KnownBiomeIds
    IN  IF name \in DOMAIN table THEN table[name] ELSE 0

\* C4: the emitted palette is the VarInt palette length, then one VarInt per entry
\* in palette order with the registry identifier of its name, 0 for an unknown
\* name; (air, stone) gives 2, 0, 1.
C4_PaletteEncoding ==
    (payload # None /\ payload.val.out.tag = "Ok") =>
        LET bytes == payload.val.out.val
            kind == payload.val.kind
            names == PaletteNames
            len == read_varint(bytes, PaletteStart(kind))
            ids == ReadVarInts(bytes, len.pos, Len(names))
        IN  /\ len.ok /\ len.value = Len(names)
            /\ ids.ok
            /\ ids.vals = [i \in 1..Len(names) |-> RegistryId(kind, names[i])]
            /\ names = <<"minecraft:air", "minecraft:stone">> =>
                 SubSeq(bytes, PaletteStart(kind) + 1, ids.pos) = <<2, 0, 1>>
            \* the data array count follows at once
            /\ LET count == read_varint(bytes, ids.pos)
               IN  count.ok /\ Len(bytes) - count.pos = 8 * count.value

C4_Witness ==
    /\ payload # None /\ payload.val.kind = "block_states" /\ payload.val.out.tag = "Ok"
    /\ PaletteNames = <<"minecraft:air", "minecraft:stone">>
    /\ SubSeq(payload.val.out.val, 4, 6) = <<2, 0, 1>>

C4_WitnessUnknown ==
    /\ payload # None /\ payload.val.kind = "block_states" /\ payload.val.out.tag = "Ok"
    /\ PaletteNames = <<"minecraft:oak_log", "minecraft:dirt">>
    /\ SubSeq(payload.val.out.val, 4, 7) = <<2, 131, 1, 0>>

\* C10: the width byte of a payload is the width its data array is packed at: the
\* VarInt word count is the number of words that follow and is
\* ceil(N / floor(64 / width)) for the N entries of a section.
C10_Original ==
    (payload # None /\ payload.val.out.tag = "Ok") =>
        LET bytes == payload.val.out.val
            kind == payload.val.kind
            width == bytes[PaletteStart(kind)]
            len == read_varint(bytes, PaletteStart(kind))
            ids == ReadVarInts(bytes, len.pos, len.value)
            count == read_varint(bytes, ids.pos)
        IN  /\ count.ok
            /\ Len(bytes) - count.pos = 8 * count.value
            /\ count.value = CeilDiv(SectionVoxels, WordBits \div width)

\* C2: a returned packet has id 0x24, both light masks with the 24 section bits
\* set, both empty masks with no bit set, both array counts 24, and 24 sky-light
\* and 24 block-light arrays of 2048 bytes 0xFF each.
C2_LightAndId ==
    (result # None /\ result.tag = "Ok") =>
        LET pk == result.val
            full(arrays) ==
                /\ Len(arrays) = 24
                /\ \A i \in 1..Len(arrays) :
                     /\ Len(arrays[i].data) = 2048
                     /\ \A j \in 1..Len(arrays[i].data) : arrays[i].data[j] = 255
        IN  /\ pk.packet_id = 36
            /\ pk.chunk_x = request.val.chunk_x /\ pk.chunk_z = request.val.chunk_z
            /\ pk.sky_light_mask = 0..23 /\ Cardinality(pk.sky_light_mask) = 24
            /\ pk.block_light_mask = 0..23 /\ Cardinality(pk.block_light_mask) = 24
            /\ pk.empty_sky_light_mask = {} /\ pk.empty_block_light_mask = {}
            /\ pk.sky_light_array_count = 24 /\ pk.block_light_array_count = 24
            /\ full(pk.sky_light_arrays) /\ full(pk.block_light_arrays)

C2_Witness ==
    /\ request = Some([chunk_x |-> -3, chunk_z |-> 1])
    /\ result # None /\ result.tag = "Ok"
    /\ result.val.chunk_x = -3 /\ result.val.chunk_z = 1
    /\ Len(result.val.sky_light_arrays) = 24

\* C8: the data payload of a returned packet is the concatenation, over the 24
\* sections in ascending vertical order, of the section's block-state payload and
\* then its biome payload: as many sections as light-mask bits and light arrays.
C8_Original ==
    (result # None /\ result.tag = "Ok") =>
        LET sections == chunk.val.sections.val
        IN  /\ Len(sections) = 24
            /\ Len(sections) = Cardinality(result.val.sky_light_mask)
            /\ Len(sections) = Len(result.val.sky_light_arrays)
            /\ \A i \in 1..(Len(sections) - 1) : sections[i].y < sections[i + 1].y
            /\ result.val.data =
                 Concat([i \in 1..Len(sections) |->
                            serialize_block_states(sections[i].block_states.val).val
                            \o serialize_biomes(sections[i].biomes.val).val])

(***************************************************************************)
(* The section loop of new on chunks whose sections may lack data.         *)
(***************************************************************************)
MaxSections == 2

BlockStatesOptions ==
    LET words == create_block_states(<<<<1, 1, 1, 1, 1>>>>, <<>>).data
    IN  {None} \cup {Some([data |-> d, palette |-> p]) :
                        d \in {None, words}, p \in {None, Some(StubPalette)}}

BiomesOptions == {None, Some([palette |-> <<"minecraft:plains">>])}

SectionOptions ==
    {[block_states |-> b, biomes |-> m, y |-> 0] : b \in BlockStatesOptions, m \in BiomesOptions}

RECURSIVE SectionSeqs(_)
SectionSeqs(n) ==
    IF n = 0 THEN {<<>>}
    ELSE {<<s>> \o rest : s \in SectionOptions, rest \in SectionSeqs(n - 1)}

\* sections numbered upwards from the bottom of the column
Numbered(sections) == [i \in 1..Len(sections) |-> [sections[i] EXCEPT !.y = MinSectionY + i - 1]]

ChunkInputs ==
    LET basic == create_basic_chunk(0, 0)
    IN  {[basic EXCEPT !.sections = Some(Numbered(ss))] :
            ss \in UNION {SectionSeqs(n) : n \in 1..MaxSections}}

InitChunk ==
    /\ NoDecodeWork
    /\ NoPackWork
    /\ request = Some([chunk_x |-> 0, chunk_z |-> 0])
    /\ chunk \in {Some(c) : c \in ChunkInputs}
    /\ result = None

NewOnChunk ==
    /\ result = None
    /\ result' = NewFromChunk(chunk.val, request.val.chunk_x, request.val.chunk_z)
    /\ UNCHANGED <<stream, pos, decoded, chunk_data, block_states, biomes, payload, request, chunk>>

SpecChunk == InitChunk /\ [][NewOnChunk]_vars

SectionLacksData(section) ==
    \/ section.block_states = None
    \/ section.biomes = None
    \/ /\ section.block_states # None
       /\ \/ section.block_states.val.palette = None
          \/ section.block_states.val.data = None

\* C1: a chunk with a section that lacks block-state or biome data makes new
\* return the missing-section-data error: no packet, no other way of ending.
C1_Original ==
    (/\ result # None
     /\ \E i \in 1..Len(chunk.val.sections.val) : SectionLacksData(chunk.val.sections.val[i]))
        => result = RErr("MissingBlockStates")

====
